---- MODULE Spec2Model ----
(***************************************************************************)
(* A model of generator.py: the loop over the (arch, asm) matrix, gen_arch *)
(* with every external invocation and file operation as one step, and the  *)
(* string functions that build the lists of meson.build.                   *)
(*                                                                         *)
(* Python strings are sequences of one-character strings, so that          *)
(* startswith, slicing, split, replace and repr are computed character by  *)
(* character as Python computes them.                                      *)
(***************************************************************************)
EXTENDS Integers, Sequences, FiniteSets, TLC

\* ------------------------------------------------------------------------
\* Bounds of the model
\* ------------------------------------------------------------------------
MaxTokens == 2
MaxDefs == 1

\* ------------------------------------------------------------------------
\* Python str operations
\* ------------------------------------------------------------------------
\* s.startswith(p)
StartsWith(s, p) == Len(s) >= Len(p) /\ SubSeq(s, 1, Len(p)) = p

\* s.endswith(p)
EndsWith(s, p) == Len(s) >= Len(p) /\ SubSeq(s, Len(s) - Len(p) + 1, Len(s)) = p

\* s[n:]
SliceFrom(s, n) == SubSeq(s, n + 1, Len(s))

\* s[:n], n >= 0
SliceTo(s, n) == SubSeq(s, 1, IF n < Len(s) THEN n ELSE Len(s))

\* s[-n:], n > 0
SliceLast(s, n) == SubSeq(s, IF Len(s) > n THEN Len(s) - n + 1 ELSE 1, Len(s))

\* s[:-n], n > 0
SliceDropLast(s, n) == SubSeq(s, 1, Len(s) - n)

Whitespace == {" ", "\t", "\n"}

\* s.split(): the maximal runs of non-whitespace characters, in order
RECURSIVE SplitAcc(_, _, _)
SplitAcc(s, cur, acc) ==
    IF s = <<>> THEN (IF cur = <<>> THEN acc ELSE Append(acc, cur))
    ELSE IF Head(s) \in Whitespace
         THEN SplitAcc(Tail(s), <<>>, IF cur = <<>> THEN acc ELSE Append(acc, cur))
         ELSE SplitAcc(Tail(s), Append(cur, Head(s)), acc)

Split(s) == SplitAcc(s, <<>>, <<>>)

\* s.replace(old, new), old non-empty: every non-overlapping occurrence of
\* old, scanning from the left
RECURSIVE Replace(_, _, _)
Replace(s, old, new) ==
    IF Len(s) < Len(old) THEN s
    ELSE IF StartsWith(s, old)
         THEN new \o Replace(SliceFrom(s, Len(old)), old, new)
         ELSE <<Head(s)>> \o Replace(Tail(s), old, new)

\* sep.join(strv)
RECURSIVE Join(_, _)
Join(sep, strv) ==
    IF strv = <<>> THEN <<>>
    ELSE IF Len(strv) = 1 THEN strv[1]
    ELSE strv[1] \o sep \o Join(sep, Tail(strv))

Chars(s) == {s[i] : i \in 1..Len(s)}

\* repr(s) of a str: the quote is ' unless s holds a ' and no "; a
\* backslash, the quote, newline and tab are escaped
ReprQuote(s) == IF "'" \in Chars(s) /\ "\"" \notin Chars(s) THEN "\"" ELSE "'"

ReprChar(c, q) ==
    IF c = "\\" THEN <<"\\", "\\">>
    ELSE IF c = q THEN <<"\\", c>>
    ELSE IF c = "\n" THEN <<"\\", "n">>
    ELSE IF c = "\t" THEN <<"\\", "t">>
    ELSE <<c>>

RECURSIVE ReprBody(_, _)
ReprBody(s, q) == IF s = <<>> THEN <<>> ELSE ReprChar(Head(s), q) \o ReprBody(Tail(s), q)

Repr(s) == <<ReprQuote(s)>> \o ReprBody(s, ReprQuote(s)) \o <<ReprQuote(s)>>

\* [f for i in strv if i not in exclude], the filter of a list comprehension
RECURSIVE NotIn(_, _)
NotIn(strv, exclude) ==
    IF strv = <<>> THEN <<>>
    ELSE IF Head(strv) \in exclude THEN NotIn(Tail(strv), exclude)
    ELSE <<Head(strv)>> \o NotIn(Tail(strv), exclude)

\* the concatenation of a list of lists (cflags += i.split() in a loop)
RECURSIVE Flatten(_)
Flatten(ll) == IF ll = <<>> THEN <<>> ELSE Head(ll) \o Flatten(Tail(ll))

\* ------------------------------------------------------------------------
\* pathlib
\* ------------------------------------------------------------------------
\* The separators of the host's path flavour: PureWindowsPath takes both
Seps(hostWin) == IF hostWin THEN {"/", "\\"} ELSE {"/"}

\* The parts of a relative path string: split on the separators, the empty
\* parts and the "." parts dropped
RECURSIVE PartsAcc(_, _, _, _)
PartsAcc(s, cur, acc, seps) ==
    IF s = <<>> THEN (IF cur \in {<<>>, <<".">>} THEN acc ELSE Append(acc, cur))
    ELSE IF Head(s) \in seps
         THEN PartsAcc(Tail(s), <<>>,
                       IF cur \in {<<>>, <<".">>} THEN acc ELSE Append(acc, cur), seps)
         ELSE PartsAcc(Tail(s), Append(cur, Head(s)), acc, seps)

Parts(hostWin, s) == PartsAcc(s, <<>>, <<>>, Seps(hostWin))

\* Path(s).as_posix() of a relative path
AsPosix(hostWin, s) ==
    IF Parts(hostWin, s) = <<>> THEN <<".">> ELSE Join(<<"/">>, Parts(hostWin, s))

\* ------------------------------------------------------------------------
\* The constants of generator.py
\* ------------------------------------------------------------------------
ASM_ARCHS == <<
    <<"B", "S", "D", "-", "x", "8", "6">>,
    <<"B", "S", "D", "-", "x", "8", "6", "_", "6", "4">>,
    <<"d", "a", "r", "w", "i", "n", "6", "4", "-", "x", "8", "6", "_", "6", "4", "-", "c", "c">>,
    <<"d", "a", "r", "w", "i", "n", "-", "i", "3", "8", "6", "-", "c", "c">>,
    <<"d", "a", "r", "w", "i", "n", "6", "4", "-", "a", "r", "m", "6", "4", "-", "c", "c">>,
    <<"l", "i", "n", "u", "x", "-", "a", "a", "r", "c", "h", "6", "4">>,
    <<"l", "i", "n", "u", "x", "-", "a", "r", "m", "v", "4">>,
    <<"l", "i", "n", "u", "x", "-", "e", "l", "f">>,
    <<"l", "i", "n", "u", "x", "-", "x", "3", "2">>,
    <<"l", "i", "n", "u", "x", "-", "x", "8", "6", "_", "6", "4">>,
    <<"l", "i", "n", "u", "x", "-", "p", "p", "c">>,
    <<"l", "i", "n", "u", "x", "-", "p", "p", "c", "6", "4">>,
    <<"l", "i", "n", "u", "x", "-", "p", "p", "c", "6", "4", "l", "e">>,
    <<"l", "i", "n", "u", "x", "3", "2", "-", "s", "3", "9", "0", "x">>,
    <<"l", "i", "n", "u", "x", "6", "4", "-", "s", "3", "9", "0", "x">>,
    <<"l", "i", "n", "u", "x", "6", "4", "-", "m", "i", "p", "s", "6", "4">>,
    <<"s", "o", "l", "a", "r", "i", "s", "-", "x", "8", "6", "-", "g", "c", "c">>,
    <<"s", "o", "l", "a", "r", "i", "s", "6", "4", "-", "x", "8", "6", "_", "6", "4", "-", "g", "c", "c">>,
    <<"V", "C", "-", "W", "I", "N", "6", "4", "A">>,
    <<"V", "C", "-", "W", "I", "N", "3", "2">>
>>

NO_ASM_ARCHS == <<
    <<"V", "C", "-", "W", "I", "N", "6", "4", "-", "A", "R", "M">> >>

\* The three values of gen_arch's asm parameter
ASM == <<"a", "s", "m">>
ASM_AVX2 == <<"a", "s", "m", "_", "a", "v", "x", "2">>
NO_ASM == <<"n", "o", "-", "a", "s", "m">>

COPTS == <<"no-comp", "no-shared", "no-afalgeng", "enable-ssl-trace">>

\* String literals of gen_arch
VC_WIN == <<"V", "C", "-", "W", "I", "N">>
GENERATED_CONFIG == <<"g", "e", "n", "e", "r", "a", "t", "e", "d", "-", "c", "o", "n", "f", "i", "g">>
ARCHS == <<"a", "r", "c", "h", "s">>
CRYPTO == <<"c", "r", "y", "p", "t", "o">>
INCLUDE == <<"i", "n", "c", "l", "u", "d", "e">>
INTERNAL == <<"i", "n", "t", "e", "r", "n", "a", "l">>
OPENSSL == <<"o", "p", "e", "n", "s", "s", "l">>
APPS == <<"a", "p", "p", "s">>
OPENSSLCONF_H == <<"o", "p", "e", "n", "s", "s", "l", "c", "o", "n", "f", ".", "h">>
BN_CONF_H == <<"b", "n", "_", "c", "o", "n", "f", ".", "h">>
DSO_CONF_H == <<"d", "s", "o", "_", "c", "o", "n", "f", ".", "h">>
PROGS_H == <<"p", "r", "o", "g", "s", ".", "h">>
MESON_BUILD == <<"m", "e", "s", "o", "n", ".", "b", "u", "i", "l", "d">>
DOT_S == <<".", "s">>
DOT_CAP_S == <<".", "S">>
DOT_ASM == <<".", "a", "s", "m">>
DASH_D == <<"-", "D">>
DASH_L == <<"-", "l">>
DOT_LIB == <<".", "l", "i", "b">>
NDEBUG == <<"N", "D", "E", "B", "U", "G">>
WALL == <<"-", "W", "a", "l", "l">>
O3 == <<"-", "O", "3">>
PTHREAD == <<"-", "p", "t", "h", "r", "e", "a", "d">>
LIST_SEP == <<",", "\n", " ", " ">>

\* ------------------------------------------------------------------------
\* gen_arch: the values it computes
\* ------------------------------------------------------------------------
\* is_win = arch.startswith('VC-WIN')
IsWin(arch) == StartsWith(arch, VC_WIN)

\* make = 'nmake' if is_win else 'make'
MakeTool(arch) == IF IsWin(arch) THEN "nmake" ELSE "make"

\* cmd = ['perl', 'Configure'] + COPTS + [arch], with asm appended when it
\* is 'no-asm'
ConfigureCmd(arch, asm) ==
    [prog |-> <<"perl", "Configure">>, opts |-> COPTS, arch |-> arch,
     more |-> IF asm = NO_ASM THEN <<asm>> ELSE <<>>]

\* env of the Configure call: CC is fake_gcc.py for asm_avx2, gcc otherwise
ConfigureEnv(asm) ==
    [CONFIGURE_CHECKER_WARN |-> "1",
     CC |-> IF asm = ASM_AVX2 THEN "fake_gcc.py" ELSE "gcc"]

\* A base_dir that leaves the assembler mode out
BaseDirNoMode(hostWin, arch, asm) ==
    Parts(hostWin, GENERATED_CONFIG) \o Parts(hostWin, ARCHS) \o Parts(hostWin, arch)

\* base_dir = Path('generated-config', 'archs', arch, asm), as its parts
BaseDir(hostWin, arch, asm) ==
    Parts(hostWin, GENERATED_CONFIG) \o Parts(hostWin, ARCHS)
        \o Parts(hostWin, arch) \o Parts(hostWin, asm)

\* Path.parent and Path.name, on parts
Parent(parts) == SubSeq(parts, 1, Len(parts) - 1)
Name(parts) == parts[Len(parts)]

\* mkdir(parents=True, exist_ok=True): the directory and every ancestor
MkdirParents(parts) == {SubSeq(parts, 1, n) : n \in 1..Len(parts)}

\* The directories after mkdir(parents=True, exist_ok=True) of parts at
\* matrix position i: the ones that exist are left as they are
Mkdir(existing, parts, i) ==
    existing \cup {[path |-> p, iter |-> i] :
                      p \in MkdirParents(parts) \ {d.path : d \in existing}}

\* The files after f is written: a file of the same path is replaced
Written(existing, f) == {g \in existing : g.path # f.path} \cup {f}

\* The headers gen_arch copies: the file in the working tree and the
\* directory under base_dir it is copied into
HEADERS == <<
    [src |-> <<INCLUDE, OPENSSL, OPENSSLCONF_H>>, dst |-> <<INCLUDE, OPENSSL>>],
    [src |-> <<INCLUDE, CRYPTO, BN_CONF_H>>,      dst |-> <<CRYPTO, INCLUDE, INTERNAL>>],
    [src |-> <<INCLUDE, CRYPTO, DSO_CONF_H>>,     dst |-> <<CRYPTO, INCLUDE, INTERNAL>>],
    [src |-> <<APPS, PROGS_H>>,                   dst |-> <<INCLUDE>>] >>

\* The two directories gen_arch creates for the headers, under base_dir
HEADER_DIRS == << <<CRYPTO, INCLUDE, INTERNAL>>, <<INCLUDE, OPENSSL>> >>

\* The three structures configdata() is asked for, in order
CONFIGDATA_VARS == <<"unified_info", "config", "target">>

\* get_sources(target): one level of object -> source indirection
get_sources(unified_info, target) ==
    [i \in 1..Len(unified_info.sources[target]) |->
        unified_info.sources[unified_info.sources[target][i]][1]]

\* A rename that keeps every name
RenameAsmNever(is_win, src) == src

\* The rename of a generated source: on Windows .s and .S become .asm
RenameAsm(is_win, src) ==
    IF is_win /\ SliceLast(src, 2) \in {DOT_S, DOT_CAP_S}
    THEN SliceDropLast(src, 2) \o DOT_ASM
    ELSE src

\* The loop over get_sources('libcrypto'): generated_srcs
RECURSIVE generated_srcs(_, _, _)
generated_srcs(generate, is_win, srcs) ==
    IF srcs = <<>> THEN <<>>
    ELSE IF Head(srcs) \in generate
         THEN <<RenameAsm(is_win, Head(srcs))>> \o generated_srcs(generate, is_win, Tail(srcs))
         ELSE generated_srcs(generate, is_win, Tail(srcs))

\* The loop over get_sources('libcrypto'): libcrypto_srcs
RECURSIVE libcrypto_srcs(_, _)
libcrypto_srcs(generate, srcs) ==
    IF srcs = <<>> THEN <<>>
    ELSE IF Head(srcs) \in generate
         THEN libcrypto_srcs(generate, Tail(srcs))
         ELSE <<Head(srcs)>> \o libcrypto_srcs(generate, Tail(srcs))

\* A prefix without its closing separator
PrefixNoSlash(arch, asm) ==
    GENERATED_CONFIG \o <<"/">> \o ARCHS \o <<"/">> \o arch \o <<"/">> \o asm

\* prefix = f'generated-config/archs/{arch}/{asm}/'
Prefix(arch, asm) ==
    GENERATED_CONFIG \o <<"/">> \o ARCHS \o <<"/">> \o arch \o <<"/">> \o asm \o <<"/">>

\* generated_srcs = [prefix + src for src in generated_srcs]
Prefixed(arch, asm, srcs) == [i \in 1..Len(srcs) |-> Prefix(arch, asm) \o srcs[i]]

\* defines = config['defines'] + lib_cppflags + config['lib_defines'] + target['defines']
\* with lib_cppflags = [i.replace('-D', '') for i in target['lib_cppflags'].split()]
Defines(config, target) ==
    config.defines
        \o [i \in 1..Len(Split(target.lib_cppflags)) |->
               Replace(Split(target.lib_cppflags)[i], DASH_D, <<>>)]
        \o config.lib_defines
        \o target.defines

\* cflags: empty on Windows, else the split of the four sources
CflagsAlways(is_win, config, target) ==
    Flatten([i \in 1..Len(config.cflags) |-> Split(config.cflags[i])])
        \o Flatten([i \in 1..Len(config.CFLAGS) |-> Split(config.CFLAGS[i])])
        \o Split(target.cflags)
        \o Split(target.CFLAGS)

Cflags(is_win, config, target) ==
    IF ~is_win
    THEN Flatten([i \in 1..Len(config.cflags) |-> Split(config.cflags[i])])
            \o Flatten([i \in 1..Len(config.CFLAGS) |-> Split(config.CFLAGS[i])])
            \o Split(target.cflags)
            \o Split(target.CFLAGS)
    ELSE <<>>

\* One token of target['ex_libs']: -l is cut from the front, and a token
\* that ends in .lib is cut to lib[:4]
LibName(lib) ==
    LET l == IF StartsWith(lib, DASH_L) THEN SliceFrom(lib, 2) ELSE lib
    IN  IF EndsWith(l, DOT_LIB) THEN SliceTo(l, 4) ELSE l

\* libs
Libs(target) ==
    IF "ex_libs" \in DOMAIN target
    THEN [i \in 1..Len(Split(target.ex_libs)) |-> LibName(Split(target.ex_libs)[i])]
    ELSE <<>>

\* The exclude sets of the join_strings calls
DEFINES_EXCLUDE == {NDEBUG}
CFLAGS_EXCLUDE_NO_O3 == {WALL, PTHREAD}
CFLAGS_EXCLUDE == {WALL, O3, PTHREAD}
LIBS_EXCLUDE == {PTHREAD}

\* join_strings(strv, exclude, paths); is_win is gen_arch's, hostWin the
\* flavour of Path
join_strings(strv, exclude, paths, is_win, hostWin) ==
    LET v == IF paths /\ is_win
             THEN [i \in 1..Len(strv) |-> AsPosix(hostWin, strv[i])]
             ELSE strv
        kept == NotIn(v, exclude)
    IN  Join(LIST_SEP, [i \in 1..Len(kept) |-> Repr(kept[i])])

\* The dict d that fills MESON_BUILD_TMPL
ManifestDict(hostWin, arch, asm, unified_info, config, target) ==
    LET is_win == IsWin(arch)
        crypto == get_sources(unified_info, "libcrypto")
        gen == Prefixed(arch, asm, generated_srcs(unified_info.generate, is_win, crypto))
    IN  [libcrypto_srcs |->
             join_strings(libcrypto_srcs(unified_info.generate, crypto) \o gen,
                          {}, TRUE, is_win, hostWin),
         libssl_srcs |->
             join_strings(get_sources(unified_info, "libssl"), {}, TRUE, is_win, hostWin),
         apps_openssl_srcs |->
             join_strings(get_sources(unified_info, "apps/openssl")
                              \o get_sources(unified_info, "apps/libapps.a"),
                          {}, TRUE, is_win, hostWin),
         defines |-> join_strings(Defines(config, target), DEFINES_EXCLUDE, FALSE, is_win, hostWin),
         cflags |-> join_strings(Cflags(is_win, config, target), CFLAGS_EXCLUDE, FALSE, is_win, hostWin),
         libs |-> join_strings(Libs(target), LIBS_EXCLUDE, FALSE, is_win, hostWin),
         arch |-> arch,
         asm |-> asm]


\* ------------------------------------------------------------------------
\* State
\* ------------------------------------------------------------------------
VARIABLES
    pc,     \* the statement of generator.py that runs next
    idx,    \* the position of the two module-level loops in Matrix
    env,    \* the host: what shutil.which finds, and the flavour of Path
    db,     \* what configdata.pm of this checkout holds after Configure
    work,   \* the files the build driver left in the working directory
    dirs,   \* the directories created, each with the matrix position that made it
    files,  \* the files copied or written, each with the position that wrote it
    log,    \* per matrix position, the steps of gen_arch that completed
    err,    \* the exception that ended the run, or "none"
    loc,    \* gen_arch's locals: the loop positions and the loaded configdata
    call    \* the last evaluation of a list of the manifest, with its inputs

vars == <<pc, idx, env, db, work, dirs, files, log, err, loc, call>>

pipelineVars == <<pc, idx, env, db, work, dirs, files, log, err, loc>>

\* ------------------------------------------------------------------------
\* Inputs of the manifest lists
\* ------------------------------------------------------------------------
\* The sequences over S of length at most n
SeqsUpTo(S, n) == UNION {[1..k -> S] : k \in 0..n}

\* The strings that split() into given tokens: the tokens joined by one or
\* by two blanks, with or without a leading blank
Pads == {<<>>, <<" ">>}
Gaps == {<<" ">>, <<" ", " ">>}

\* config['defines']
ConfigDefinePool == {
    <<"N", "D", "E", "B", "U", "G">>,
    <<"L", "_", "E", "N", "D", "I", "A", "N">> }
\* config['lib_defines']
LibDefinePool == {
    <<"N", "D", "E", "B", "U", "G">>,
    <<"N", "D", "E", "B", "U", "G", "S">> }
\* target['defines']
TargetDefinePool == {
    <<"P", "I", "C">>,
    <<"N", "D", "E", "B", "U", "G">> }
\* the tokens of target['lib_cppflags']
CppflagPool == {
    <<"-", "D", "P", "I", "C">>,
    <<"-", "D", "N", "D", "E", "B", "U", "G">>,
    <<"-", "D", "A", "-", "D", "B">> }
\* the tokens of the strings of config['cflags']
ConfigCflagPool == {
    <<"-", "W", "a", "l", "l">>,
    <<"-", "g">> }
\* the tokens of the strings of config['CFLAGS']
ConfigCFLAGPool == {
    <<"-", "O", "3">> }
\* the tokens of target['cflags']
TargetCflagPool == {
    <<"-", "p", "t", "h", "r", "e", "a", "d">>,
    <<"-", "m", "6", "4">> }
\* the tokens of target['CFLAGS']
TargetCFLAGPool == {
    <<"-", "O", "2">> }
\* the tokens of target['ex_libs']
ExLibPool == {
    <<"-", "l", "d", "l">>,
    <<"-", "p", "t", "h", "r", "e", "a", "d">>,
    <<"w", "s", "2", "_", "3", "2", ".", "l", "i", "b">>,
    <<"-", "l", "p", "t", "h", "r", "e", "a", "d">>,
    <<"-", "l", "-", "p", "t", "h", "r", "e", "a", "d">> }

NoConfig == [defines |-> <<>>, lib_defines |-> <<>>, cflags |-> <<>>, CFLAGS |-> <<>>]
NoTarget == [lib_cppflags |-> <<>>, defines |-> <<>>, cflags |-> <<>>, CFLAGS |-> <<>>]
NoToks == [a |-> <<>>, b |-> <<>>, c |-> <<>>, d |-> <<>>]
NoCall == [fn |-> "none", arch |-> <<>>, toks |-> NoToks, config |-> NoConfig,
           target |-> NoTarget, done |-> FALSE, list |-> <<>>, out |-> <<>>]

\* The architectures the lists are evaluated for
EvalArchs == {ASM_ARCHS[1], ASM_ARCHS[10], ASM_ARCHS[19], ASM_ARCHS[20], NO_ASM_ARCHS[1]}

\* Configuration databases with drawn define lists; toks keeps the tokens
\* the strings were spelled from
DefinesInputs ==
    {[fn |-> "defines", arch |-> ASM_ARCHS[10],
      toks |-> [a |-> cd, b |-> ct, c |-> ld, d |-> td],
      config |-> [NoConfig EXCEPT !.defines = cd, !.lib_defines = ld],
      target |-> [NoTarget EXCEPT !.lib_cppflags = pad \o Join(gap, ct), !.defines = td],
      done |-> FALSE, list |-> <<>>, out |-> <<>>] :
        cd \in SeqsUpTo(ConfigDefinePool, MaxDefs), ld \in SeqsUpTo(LibDefinePool, MaxDefs),
        td \in SeqsUpTo(TargetDefinePool, MaxDefs), ct \in SeqsUpTo(CppflagPool, MaxTokens),
        pad \in Pads, gap \in Gaps}

\* Configuration databases with drawn flag strings: config['cflags'] holds
\* one string of several flags, config['CFLAGS'] one string per flag
CflagsInputs ==
    {[fn |-> "cflags", arch |-> e,
      toks |-> [a |-> a, b |-> b, c |-> c, d |-> d],
      config |-> [NoConfig EXCEPT !.cflags = IF a = <<>> THEN <<>>
                                             ELSE <<pad \o Join(gap, a)>>,
                                  !.CFLAGS = b],
      target |-> [NoTarget EXCEPT !.cflags = Join(<<" ">>, c),
                                  !.CFLAGS = Join(<<"\t">>, d)],
      done |-> FALSE, list |-> <<>>, out |-> <<>>] :
        e \in EvalArchs, a \in SeqsUpTo(ConfigCflagPool, MaxTokens),
        b \in SeqsUpTo(ConfigCFLAGPool, MaxTokens),
        c \in SeqsUpTo(TargetCflagPool, MaxTokens), d \in SeqsUpTo(TargetCFLAGPool, MaxTokens),
        pad \in Pads, gap \in Gaps}

\* Targets with a drawn ex_libs string
LibsInputs ==
    {[fn |-> "libs", arch |-> e,
      toks |-> [NoToks EXCEPT !.a = t],
      config |-> NoConfig,
      target |-> [lib_cppflags |-> <<>>, defines |-> <<>>, cflags |-> <<>>,
                  CFLAGS |-> <<>>, ex_libs |-> pad \o Join(gap, t)],
      done |-> FALSE, list |-> <<>>, out |-> <<>>] :
        e \in {ASM_ARCHS[10], ASM_ARCHS[19]}, t \in SeqsUpTo(ExLibPool, MaxTokens),
        pad \in Pads, gap \in Gaps}

\* The targets without ex_libs
NoLibsInputs ==
    {[NoCall EXCEPT !.fn = "libs", !.arch = e] : e \in {ASM_ARCHS[10], ASM_ARCHS[19]}}

\* ------------------------------------------------------------------------
\* The lists of the manifest, evaluated on the drawn inputs
\* ------------------------------------------------------------------------
\* The list gen_arch collects and the string join_strings makes of it
Evaluated(list, exclude) ==
    /\ call' = [call EXCEPT !.done = TRUE, !.list = list,
                            !.out = join_strings(list, exclude, FALSE,
                                                 IsWin(call.arch), env.hostWin)]
    /\ UNCHANGED pipelineVars

\* defines and d['defines']
EvalDefines ==
    /\ call.fn = "defines" /\ ~call.done
    /\ Evaluated(Defines(call.config, call.target), DEFINES_EXCLUDE)

\* cflags and d['cflags']
EvalCflags ==
    /\ call.fn = "cflags" /\ ~call.done
    /\ Evaluated(Cflags(IsWin(call.arch), call.config, call.target), CFLAGS_EXCLUDE)

\* libs and d['libs']
EvalLibs ==
    /\ call.fn = "libs" /\ ~call.done
    /\ Evaluated(Libs(call.target), LIBS_EXCLUDE)

\* ------------------------------------------------------------------------
\* The configuration databases of the run
\* ------------------------------------------------------------------------
SRC_A_C == <<"c", "r", "y", "p", "t", "o", "/", "a", ".", "c">>
SRC_B_S == <<"c", "r", "y", "p", "t", "o", "/", "b", ".", "s">>
SRC_C_S == <<"c", "r", "y", "p", "t", "o", "/", "x", "/", "c", ".", "S">>
SRC_E_C == <<"e", ".", "c">>
SRC_WA_C == <<"c", "r", "y", "p", "t", "o", "\\", "a", ".", "c">>
SRC_WB_S == <<"c", "r", "y", "p", "t", "o", "\\", "b", ".", "s">>
SRC_SSL == <<"s", "s", "l", "/", "s", "3", "_", "l", "i", "b", ".", "c">>
SRC_LIBAPPS == <<"a", "p", "p", "s", "/", "o", "p", "t", ".", "c">>
SRC_OPENSSL == <<"a", "p", "p", "s", "/", "o", "p", "e", "n", "s", "s", "l", ".", "c">>

\* unified_info['generate']: the sources a build step produces
GENERATE == {SRC_B_S, SRC_C_S, SRC_E_C, SRC_WB_S}

OtherSources ==
    ("libssl" :> <<"ssl/s3_lib.o">>) @@ ("ssl/s3_lib.o" :> <<SRC_SSL>>)
    @@ ("apps/libapps.a" :> <<"apps/opt.o">>) @@ ("apps/opt.o" :> <<SRC_LIBAPPS>>)
    @@ ("apps/openssl" :> <<"apps/openssl.o">>) @@ ("apps/openssl.o" :> <<SRC_OPENSSL>>)

\* unified_info of a build with assembly: a static source, two generated
\* assembly sources and a generated C source
UNIFIED_ASM ==
    [generate |-> GENERATE,
     sources |-> ("libcrypto" :> <<"crypto/a.o", "crypto/b.o", "crypto/x/c.o", "e.o">>)
                 @@ ("crypto/a.o" :> <<SRC_A_C>>) @@ ("crypto/b.o" :> <<SRC_B_S>>)
                 @@ ("crypto/x/c.o" :> <<SRC_C_S>>) @@ ("e.o" :> <<SRC_E_C>>)
                 @@ OtherSources]

\* unified_info that names its sources with backslashes
UNIFIED_BACKSLASH ==
    [generate |-> GENERATE,
     sources |-> ("libcrypto" :> <<"crypto/a.o", "crypto/b.o">>)
                 @@ ("crypto/a.o" :> <<SRC_WA_C>>) @@ ("crypto/b.o" :> <<SRC_WB_S>>)
                 @@ OtherSources]

\* unified_info of a build without generated sources
UNIFIED_STATIC ==
    [generate |-> GENERATE,
     sources |-> ("libcrypto" :> <<"crypto/a.o">>) @@ ("crypto/a.o" :> <<SRC_A_C>>)
                 @@ OtherSources]

CONFIG == [defines |-> <<NDEBUG, <<"L", "_", "E", "N", "D", "I", "A", "N">>>>, lib_defines |-> <<>>,
           cflags |-> <<<<"-", "W", "a", "l", "l", " ", "-", "O", "3", " ", "-", "g">>>>, CFLAGS |-> <<>>]

TARGET == [lib_cppflags |-> <<"-", "D", "P", "I", "C">>, defines |-> <<>>, cflags |-> PTHREAD,
           CFLAGS |-> <<>>, ex_libs |-> <<"-", "l", "d", "l", " ", "-", "p", "t", "h", "r", "e", "a", "d">>]

Databases ==
    {[unified_info |-> u, config |-> CONFIG, target |-> TARGET] :
        u \in {UNIFIED_ASM, UNIFIED_BACKSLASH, UNIFIED_STATIC}}

\* ------------------------------------------------------------------------
\* The module-level loops
\* ------------------------------------------------------------------------
\* The calls of gen_arch in order: three per entry of ASM_ARCHS, then one
\* per entry of NO_ASM_ARCHS
Matrix ==
    Flatten([i \in 1..Len(ASM_ARCHS) |->
                <<[arch |-> ASM_ARCHS[i], asm |-> ASM],
                  [arch |-> ASM_ARCHS[i], asm |-> ASM_AVX2],
                  [arch |-> ASM_ARCHS[i], asm |-> NO_ASM]>>])
        \o [i \in 1..Len(NO_ASM_ARCHS) |-> [arch |-> NO_ASM_ARCHS[i], asm |-> NO_ASM]]

arch == Matrix[idx].arch
asm == Matrix[idx].asm
is_win == IsWin(arch)
make == MakeTool(arch)
base_dir == BaseDir(env.hostWin, arch, asm)

\* shutil.which(tool)
Which(tool) == IF tool = "nmake" THEN env.nmake ELSE env.make

NoLoc == [h |-> 1, v |-> 1, k |-> 1, generated_srcs |-> <<>>]

Logged(op, ok) == log' = [log EXCEPT ![idx] = Append(@, [op |-> op, ok |-> ok])]

\* gen_arch returns: the loop calls it for the next entry, or ends
Return ==
    /\ idx' = idx + 1
    /\ pc' = IF idx = Len(Matrix) THEN "done" ELSE "gen_arch"
    /\ loc' = NoLoc

\* subprocess.call: the exit status is not looked at
call_unchecked(rc, next) ==
    /\ pc' = next
    /\ err' = err

\* subprocess.check_call and check_output: a non-zero exit status raises
\* CalledProcessError, which nothing catches
check_call(rc, next) ==
    IF rc = 0
    THEN pc' = next /\ err' = err
    ELSE pc' = "aborted" /\ err' = "CalledProcessError"

\* The dict d of a file that is not a manifest
NoDict == [libcrypto_srcs |-> <<>>, libssl_srcs |-> <<>>, apps_openssl_srcs |-> <<>>,
           defines |-> <<>>, cflags |-> <<>>, libs |-> <<>>, arch |-> <<>>, asm |-> <<>>]

\* shutil.copy(src, dir) of a file of the working directory: the copy is
\* dir/name, and a missing src raises FileNotFoundError
Copied(src, dir) ==
    [path |-> dir \o <<Name(src)>>, kind |-> "copy", iter |-> idx, from |-> src, d |-> NoDict]

\* ------------------------------------------------------------------------
\* gen_arch, statement by statement
\* ------------------------------------------------------------------------
\* if not shutil.which(make): return, taken although the driver is missing
GenArchNoSkip ==
    /\ pc = "gen_arch"
    /\ pc' = "configure"
    /\ UNCHANGED <<idx, env, db, work, dirs, files, log, err, loc, call>>

\* is_win, make, and: if not shutil.which(make): return
GenArch ==
    /\ pc = "gen_arch"
    /\ IF Which(make)
       THEN pc' = "configure" /\ UNCHANGED <<idx, loc>>
       ELSE Return
    /\ UNCHANGED <<env, db, work, dirs, files, log, err, call>>

\* subprocess.check_call(cmd, env=env) of perl Configure
Configure ==
    /\ pc = "configure"
    /\ \E rc \in {0, 1} :
        /\ check_call(rc, "build_generated")
        /\ log' = [log EXCEPT ![idx] =
                      Append(@, [op |-> "Configure", ok |-> rc = 0,
                                 cmd |-> ConfigureCmd(arch, asm), env |-> ConfigureEnv(asm)])]
    /\ UNCHANGED <<idx, env, db, work, dirs, files, loc, call>>

\* What make build_generated may leave behind when it exits with 0: the four
\* headers, or all but one of them
HeaderOutcomes ==
    LET all == {HEADERS[h].src : h \in 1..Len(HEADERS)}
    IN  {all} \cup {all \ {x} : x \in all}

\* subprocess.check_call([make, 'build_generated', 'crypto/buildinf.h', 'apps/progs.h'])
BuildGenerated ==
    /\ pc = "build_generated"
    /\ \E rc \in {0, 1} :
        /\ check_call(rc, "mkdir")
        /\ Logged("build_generated", rc = 0)
        /\ IF rc = 0
           THEN \E made \in HeaderOutcomes : work' = work \cup made
           ELSE work' = work
    /\ UNCHANGED <<idx, env, db, dirs, files, loc, call>>

\* Path(base_dir, ...).mkdir(parents=True, exist_ok=True), twice
MkdirHeaders ==
    /\ pc = "mkdir"
    /\ dirs' = Mkdir(dirs, base_dir \o HEADER_DIRS[loc.h], idx)
    /\ Logged("mkdir", TRUE)
    /\ IF loc.h = Len(HEADER_DIRS)
       THEN pc' = "copy_header" /\ loc' = [loc EXCEPT !.h = 1]
       ELSE pc' = pc /\ loc' = [loc EXCEPT !.h = @ + 1]
    /\ UNCHANGED <<idx, env, db, work, files, err, call>>

\* shutil.copy(header, base_dir / ...), four times
CopyHeader ==
    /\ pc = "copy_header"
    /\ IF HEADERS[loc.h].src \in work
       THEN /\ files' = Written(files, Copied(HEADERS[loc.h].src, base_dir \o HEADERS[loc.h].dst))
            /\ Logged("copy_header", TRUE)
            /\ err' = err
            /\ IF loc.h = Len(HEADERS)
               THEN pc' = "configdata" /\ loc' = [loc EXCEPT !.h = 1]
               ELSE pc' = pc /\ loc' = [loc EXCEPT !.h = @ + 1]
       ELSE /\ Logged("copy_header", FALSE)
            /\ pc' = "aborted"
            /\ err' = "FileNotFoundError"
            /\ UNCHANGED <<files, loc>>
    /\ UNCHANGED <<idx, env, db, work, dirs, call>>

\* configdata(varname): subprocess.check_output of perl, three times
ConfigData ==
    /\ pc = "configdata"
    /\ \E rc \in {0, 1} :
        /\ check_call(rc, IF loc.v = Len(CONFIGDATA_VARS) THEN "sources" ELSE pc)
        /\ Logged(CONFIGDATA_VARS[loc.v], rc = 0)
        /\ loc' = IF rc = 0 THEN [loc EXCEPT !.v = @ + 1] ELSE loc
    /\ UNCHANGED <<idx, env, db, work, dirs, files, call>>

\* The four get_sources calls and the loop that splits the sources of
\* libcrypto into libcrypto_srcs and generated_srcs
Sources ==
    /\ pc = "sources"
    /\ LET g == generated_srcs(db.unified_info.generate, is_win,
                               get_sources(db.unified_info, "libcrypto"))
       IN  /\ loc' = [loc EXCEPT !.generated_srcs = g, !.k = 1]
           /\ pc' = IF g = <<>> THEN "meson_build" ELSE "make_src"
    /\ Logged("sources", TRUE)
    /\ UNCHANGED <<idx, env, db, work, dirs, files, err, call>>

\* subprocess.check_call([make, src], env=env): the driver builds the target
\* it is given, or exits with 0 and leaves nothing
MakeSrc ==
    /\ pc = "make_src"
    /\ \E rc \in {0, 1} :
        /\ check_call(rc, "mkdir_dest")
        /\ log' = [log EXCEPT ![idx] =
                      Append(@, [op |-> "make_src", ok |-> rc = 0,
                                 target |-> loc.generated_srcs[loc.k]])]
        /\ IF rc = 0
           THEN \E made \in BOOLEAN :
                  work' = IF made
                          THEN work \cup {Parts(env.hostWin, loc.generated_srcs[loc.k])}
                          ELSE work
           ELSE work' = work
    /\ UNCHANGED <<idx, env, db, dirs, files, loc, call>>

\* dest = base_dir / Path(src).parent; dest.mkdir(parents=True, exist_ok=True)
MkdirDest ==
    /\ pc = "mkdir_dest"
    /\ dirs' = Mkdir(dirs, base_dir \o Parent(Parts(env.hostWin, loc.generated_srcs[loc.k])), idx)
    /\ Logged("mkdir_dest", TRUE)
    /\ pc' = "copy_src"
    /\ UNCHANGED <<idx, env, db, work, files, err, loc, call>>

\* shutil.copy(src, dest)
CopySrc ==
    /\ pc = "copy_src"
    /\ LET src == Parts(env.hostWin, loc.generated_srcs[loc.k])
       IN  IF src \in work
           THEN /\ files' = Written(files, Copied(src, base_dir \o Parent(src)))
                /\ Logged("copy_src", TRUE)
                /\ err' = err
                /\ loc' = [loc EXCEPT !.k = @ + 1]
                /\ pc' = IF loc.k = Len(loc.generated_srcs) THEN "meson_build" ELSE "make_src"
           ELSE /\ Logged("copy_src", FALSE)
                /\ pc' = "aborted"
                /\ err' = "FileNotFoundError"
                /\ UNCHANGED <<files, loc>>
    /\ UNCHANGED <<idx, env, db, work, dirs, call>>

\* The lists of the manifest, and f.write(MESON_BUILD_TMPL.format(**d)) to
\* base_dir/meson.build
MesonBuild ==
    /\ pc = "meson_build"
    /\ files' = Written(files,
                        [path |-> base_dir \o <<MESON_BUILD>>, kind |-> "manifest",
                         iter |-> idx, from |-> <<>>,
                         d |-> ManifestDict(env.hostWin, arch, asm,
                                            db.unified_info, db.config, db.target)])
    /\ Logged("meson_build", TRUE)
    /\ pc' = "clean"
    /\ UNCHANGED <<idx, env, db, work, dirs, err, loc, call>>

\* subprocess.check_call([make, 'clean'])
Clean ==
    /\ pc = "clean"
    /\ \E rc \in {0, 1} :
        /\ check_call(rc, "distclean")
        /\ Logged("clean", rc = 0)
    /\ UNCHANGED <<idx, env, db, work, dirs, files, loc, call>>

\* subprocess.check_call([make, 'distclean']): what the driver built is gone
Distclean ==
    /\ pc = "distclean"
    /\ \E rc \in {0, 1} :
        /\ check_call(rc, "git_clean")
        /\ Logged("distclean", rc = 0)
        /\ work' = IF rc = 0 THEN {} ELSE work
    /\ UNCHANGED <<idx, env, db, dirs, files, loc, call>>

\* The cleanup without its last call
GitCleanLeftOut ==
    /\ pc = "git_clean"
    /\ Return
    /\ UNCHANGED <<env, db, work, dirs, files, log, err, call>>

\* subprocess.check_call(['git', 'clean', '-f', 'crypto']), the last
\* statement of gen_arch
GitClean ==
    /\ pc = "git_clean"
    /\ \E rc \in {0, 1} :
        /\ Logged("git_clean", rc = 0)
        /\ IF rc = 0
           THEN Return /\ err' = err
           ELSE pc' = "aborted" /\ err' = "CalledProcessError" /\ UNCHANGED <<idx, loc>>
    /\ UNCHANGED <<env, db, work, dirs, files, call>>

\* The hosts of a run: what shutil.which finds there and the flavour of its
\* paths. nmake is found on Windows hosts only; make may be found on either
Hosts ==
    {[make |-> TRUE,  nmake |-> FALSE, hostWin |-> FALSE],
     [make |-> FALSE, nmake |-> FALSE, hostWin |-> FALSE],
     [make |-> FALSE, nmake |-> TRUE,  hostWin |-> TRUE],
     [make |-> TRUE,  nmake |-> TRUE,  hostWin |-> TRUE]}

\* ------------------------------------------------------------------------
\* Specifications
\* ------------------------------------------------------------------------
Init ==
    /\ pc = "gen_arch"
    /\ idx = 1
    /\ env \in Hosts
    /\ db \in Databases
    /\ work = {}
    /\ dirs = {}
    /\ files = {}
    /\ log = [i \in 1..Len(Matrix) |-> <<>>]
    /\ err = "none"
    /\ loc = NoLoc
    /\ call = NoCall

Next ==
    \/ GenArch
    \/ Configure
    \/ BuildGenerated
    \/ MkdirHeaders
    \/ CopyHeader
    \/ ConfigData
    \/ Sources
    \/ MakeSrc
    \/ MkdirDest
    \/ CopySrc
    \/ MesonBuild
    \/ Clean
    \/ Distclean
    \/ GitClean

\* A run of generator.py
Spec == Init /\ [][Next]_vars

InitEval ==
    /\ pc = "done"
    /\ idx = Len(Matrix) + 1
    /\ env = [make |-> TRUE, nmake |-> FALSE, hostWin |-> FALSE]
    /\ db = [unified_info |-> UNIFIED_STATIC, config |-> CONFIG, target |-> TARGET]
    /\ work = {}
    /\ dirs = {}
    /\ files = {}
    /\ log = [i \in 1..Len(Matrix) |-> <<>>]
    /\ err = "none"
    /\ loc = NoLoc
    /\ \/ call \in DefinesInputs
       \/ call \in CflagsInputs
       \/ call \in LibsInputs
       \/ call \in NoLibsInputs

NextEval ==
    \/ EvalDefines
    \/ EvalCflags
    \/ EvalLibs

\* The lists of the manifest as functions of the configuration database
SpecEval == InitEval /\ [][NextEval]_vars

\* ------------------------------------------------------------------------
\* Reading the manifest
\* ------------------------------------------------------------------------
\* The places in text where sep starts
SepAt(text, sep) ==
    {i \in 1..(Len(text) - Len(sep) + 1) : SubSeq(text, i, i + Len(sep) - 1) = sep}

\* The k-th smallest element of the set S of numbers
Nth(S, k) == CHOOSE i \in S : Cardinality({j \in S : j < i}) = k - 1

\* The pieces of text between the occurrences of sep
Pieces(text, sep) ==
    LET at == SepAt(text, sep)
        n == Cardinality(at) + 1
    IN  [k \in 1..n |->
            SubSeq(text,
                   IF k = 1 THEN 1 ELSE Nth(at, k - 1) + Len(sep),
                   IF k = n THEN Len(text) ELSE Nth(at, k) - 1)]

\* The string a quoted literal stands for: the quotes are dropped, and a
\* backslash stands for the character that follows it
RECURSIVE Unescaped(_)
Unescaped(s) ==
    IF s = <<>> THEN <<>>
    ELSE IF Head(s) = "\\" /\ Len(s) >= 2
         THEN <<IF s[2] = "n" THEN "\n" ELSE IF s[2] = "t" THEN "\t" ELSE s[2]>>
                  \o Unescaped(SliceFrom(s, 2))
         ELSE <<Head(s)>> \o Unescaped(Tail(s))

Unquoted(r) == Unescaped(SubSeq(r, 2, Len(r) - 1))

\* The entries of a list of the manifest, as the reader of meson.build
\* takes them from the text between the brackets
Entries(text) ==
    IF text = <<>> THEN <<>>
    ELSE LET pieces == Pieces(text, LIST_SEP)
         IN  [i \in 1..Len(pieces) |-> Unquoted(pieces[i])]

\* strv without the entries in S, in order
Without(strv, S) == SelectSeq(strv, LAMBDA x : x \notin S)

InSeq(x, strv) == \E i \in 1..Len(strv) : strv[i] = x

\* ------------------------------------------------------------------------
\* The claims on the lists of the manifest (SpecEval)
\* ------------------------------------------------------------------------
\* A library name as the claim has it: a leading -l is cut, and a trailing
\* .lib is cut
StrippedLib(t) ==
    LET l == IF Len(t) >= 2 /\ SubSeq(t, 1, 2) = DASH_L THEN SubSeq(t, 3, Len(t)) ELSE t
    IN  IF Len(l) >= 4 /\ SubSeq(l, Len(l) - 3, Len(l)) = DOT_LIB
        THEN SubSeq(l, 1, Len(l) - 4)
        ELSE l

\* C5 as claimed: the emitted libs are the tokens of ex_libs in order, each
\* with a leading -l and a trailing .lib cut (ws2_32.lib gives ws2_32); the
\* -pthread entries, which C8 has dropped, are not counted against it
C5_LibsStripPrefixAndSuffix ==
    (call.fn = "libs" /\ call.done) =>
        Entries(call.out) =
            Without([i \in 1..Len(call.toks.a) |-> StrippedLib(call.toks.a[i])], {PTHREAD})

\* A define as the claim has it: only a leading -D is cut
StrippedDefine(t) ==
    IF Len(t) >= 2 /\ SubSeq(t, 1, 2) = DASH_D THEN SubSeq(t, 3, Len(t)) ELSE t

\* C6 as claimed: the emitted defines are config['defines'], the tokens of
\* lib_cppflags each without its leading -D only, config['lib_defines'] and
\* target['defines'], in this order, with exactly the NDEBUG entries removed
C6_DefinesConcatenation ==
    (call.fn = "defines" /\ call.done) =>
        Entries(call.out) =
            Without(call.toks.a
                      \o [i \in 1..Len(call.toks.b) |-> StrippedDefine(call.toks.b[i])]
                      \o call.toks.c
                      \o call.toks.d,
                    {NDEBUG})

\* C8: the emitted cflags hold no -Wall, -O3 or -pthread and the emitted libs
\* no -pthread, and they are the collected lists without exactly these
\* entries, in order
C8_NuisanceStripped ==
    /\ (call.fn = "cflags" /\ call.done) =>
          /\ \A x \in {WALL, O3, PTHREAD} : ~InSeq(x, Entries(call.out))
          /\ Entries(call.out) = Without(call.list, {WALL, O3, PTHREAD})
    /\ (call.fn = "libs" /\ call.done) =>
          /\ ~InSeq(PTHREAD, Entries(call.out))
          /\ Entries(call.out) = Without(call.list, {PTHREAD})

\* C8's case: flags of a non-Windows architecture with -O3 and -pthread among
\* them and a flag that stays
C8_Witness ==
    /\ call.fn = "cflags" /\ call.done
    /\ InSeq(O3, call.list) /\ InSeq(PTHREAD, call.list)
    /\ InSeq(<<"-", "g">>, Entries(call.out))

\* C9: for an architecture whose name starts with VC-WIN the collected and
\* the emitted cflags are empty; for any other the collected cflags are the
\* flags of config['cflags'], config['CFLAGS'], target['cflags'] and
\* target['CFLAGS'], in this order
C9_CflagsOnlyOffWindows ==
    (call.fn = "cflags" /\ call.done) =>
        IF Len(call.arch) >= 6 /\ SubSeq(call.arch, 1, 6) = VC_WIN
        THEN call.list = <<>> /\ call.out = <<>>
        ELSE call.list = call.toks.a \o call.toks.b \o call.toks.c \o call.toks.d

\* C9's case: a Windows architecture whose database reports flags
C9_Witness ==
    /\ call.fn = "cflags" /\ call.done
    /\ call.arch = ASM_ARCHS[19]
    /\ call.toks.a # <<>> /\ call.toks.d # <<>>

\* ------------------------------------------------------------------------
\* The claims on a run (Spec)
\* ------------------------------------------------------------------------
\* generated-config/archs/<arch>/<asm> of matrix position i
TreeOf(i) == <<GENERATED_CONFIG, ARCHS, Matrix[i].arch, Matrix[i].asm>>

Under(p, dir) == Len(p) > Len(dir) /\ SubSeq(p, 1, Len(dir)) = dir

\* p is the tree of matrix position i or lies under it
InTree(p, i) ==
    /\ Len(p) >= 4
    /\ p[4] = Matrix[i].asm
    /\ p[3] = Matrix[i].arch
    /\ p[2] = ARCHS
    /\ p[1] = GENERATED_CONFIG

\* p is generated-config, generated-config/archs or
\* generated-config/archs/<arch> of matrix position i
AboveTree(p, i) ==
    /\ Len(p) \in 1..3
    /\ p = SubSeq(TreeOf(i), 1, Len(p))

\* The driver of an architecture is on the path: nmake for the names that
\* start with VC-WIN, make for the others
DriverFound(a) ==
    IF Len(a) >= 6 /\ SubSeq(a, 1, 6) = VC_WIN THEN env.nmake ELSE env.make

Ops(i) == [k \in 1..Len(log[i]) |-> log[i][k].op]

\* meson.build of position i, written by its iteration
IsManifest(f, i) ==
    f.kind = "manifest" /\ f.iter = i /\ f.path = TreeOf(i) \o <<MESON_BUILD>>

WrittenManifest(i) == \E f \in files : IsManifest(f, i)

ManifestOf(i) == CHOOSE f \in files : IsManifest(f, i)

\* The file of the tree that position i copied to path
IsCopy(f, i, path) == f.kind = "copy" /\ f.iter = i /\ f.path = path

\* C1: a pair whose driver is not found gets no invocation, no directory and
\* no file, and gen_arch returns there at once: the loop goes to the next
\* pair (or ends), nothing else changes, and no error is raised
C1_SkipWithoutDriver ==
    /\ [](/\ \A i \in 1..Len(Matrix) : ~DriverFound(Matrix[i].arch) => log[i] = <<>>
          /\ \A g \in dirs : Len(g.path) >= 3 => DriverFound(g.path[3])
          /\ \A f \in files :
                /\ Len(f.path) >= 3
                /\ f.path[1] = GENERATED_CONFIG /\ f.path[2] = ARCHS
                /\ DriverFound(f.path[3])
                /\ DriverFound(Matrix[f.iter].arch))
    /\ [][(pc = "gen_arch" /\ ~DriverFound(Matrix[idx].arch)) =>
             /\ idx' = idx + 1
             /\ pc' = (IF idx = Len(Matrix) THEN "done" ELSE "gen_arch")
             /\ err' = "none"
             /\ UNCHANGED <<work, dirs, files, log>>]_vars

\* C1's case: a pair was skipped for want of make, and a later pair, whose
\* driver nmake is found, is being configured
C1_Witness ==
    /\ pc = "configure"
    /\ idx > 1
    /\ ~DriverFound(Matrix[idx - 1].arch)
    /\ log[idx - 1] = <<>>

\* C2: a step that failed (an invocation that returned non-zero, a copy
\* whose file is missing) is the last step of the run: nothing follows it in
\* its iteration, the run is over with the exception, and no later pair has
\* an invocation, a file or a manifest
C2_StopsAtFirstFatalError ==
    \A i \in 1..Len(Matrix) : \A j \in 1..Len(log[i]) :
        ~log[i][j].ok =>
            /\ j = Len(log[i])
            /\ pc = "aborted" /\ idx = i
            /\ err = (IF log[i][j].op \in {"copy_header", "copy_src"}
                      THEN "FileNotFoundError" ELSE "CalledProcessError")
            /\ \A i2 \in (i + 1)..Len(Matrix) : log[i2] = <<>>
            /\ \A f \in files : f.iter <= i
            /\ \A g \in dirs : g.iter <= i
            /\ WrittenManifest(i) => InSeq("meson_build", SubSeq(Ops(i), 1, j - 1))

\* C2's case: the run of a later pair ended at a failed make of a generated
\* source, after an earlier pair went through
C2_Witness ==
    /\ pc = "aborted"
    /\ idx > 1
    /\ log[idx][Len(log[idx])].op = "make_src"
    /\ WrittenManifest(1)

\* The iteration of position i wrote its manifest and then ran clean,
\* distclean and git clean, once each, in this order, as its last steps, and
\* every step of it succeeded
Complete(i) ==
    LET n == Len(log[i])
    IN  /\ n >= 4
        /\ log[i][n - 3].op = "meson_build"
        /\ log[i][n - 2].op = "clean"
        /\ log[i][n - 1].op = "distclean"
        /\ log[i][n].op = "git_clean"
        /\ \A k \in 1..n : log[i][k].ok
        /\ \A k \in 1..(n - 4) :
              log[i][k].op \notin {"meson_build", "clean", "distclean", "git_clean"}

\* C3: an iteration begins with Configure, no pair after the current one
\* has begun, and every pair before the current one that was not skipped is
\* complete: when Configure of a later pair begins, the manifest of each
\* earlier pair is written and its clean, distclean and git clean are done
C3_ResetBarrier ==
    \A i \in 1..Len(Matrix) :
        log[i] # <<>> =>
            /\ i <= idx
            /\ log[i][1].op = "Configure"
            /\ (i < idx) => Complete(i)

\* C3's case: two pairs in a row were not skipped, and the second is past
\* its Configure
C3_Witness ==
    /\ idx > 1 /\ idx <= Len(Matrix)
    /\ log[idx - 1] # <<>>
    /\ Len(log[idx]) >= 2

\* The sources of libcrypto the database marks generated whose name ends in
\* .s or .S
AsmGenerated ==
    {s \in {db.unified_info.sources[o][1] : o \in
                {db.unified_info.sources["libcrypto"][n] :
                    n \in 1..Len(db.unified_info.sources["libcrypto"])}} :
        /\ s \in db.unified_info.generate
        /\ Len(s) >= 2
        /\ SubSeq(s, Len(s) - 1, Len(s)) \in {DOT_S, DOT_CAP_S}}

\* s with its two-character extension made .asm
AsAsm(s) == SubSeq(s, 1, Len(s) - 2) \o DOT_ASM

\* The manifest of the current position, once written, for a Windows pair
WindowsManifest ==
    /\ idx <= Len(Matrix)
    /\ WrittenManifest(idx)
    /\ Len(Matrix[idx].arch) >= 6 /\ SubSeq(Matrix[idx].arch, 1, 6) = VC_WIN

ManifestNames(i, path) ==
    LET e == Entries(ManifestOf(i).d.libcrypto_srcs)
    IN  \E k \in 1..Len(e) : Parts(env.hostWin, e[k]) = path

\* C4 as claimed: on a Windows pair the manifest names a generated .s or .S
\* source as .asm, and the file copied into the tree was taken from the
\* working directory under the original .s or .S name
C4_CopyLocatesOriginalName ==
    WindowsManifest =>
        \A s \in AsmGenerated :
            /\ ManifestNames(idx, TreeOf(idx) \o Parts(env.hostWin, AsAsm(s)))
            /\ \E f \in files :
                  /\ f.kind = "copy"
                  /\ f.iter = idx
                  /\ f.from = Parts(env.hostWin, s)

\* C4 as amended: on a Windows pair the rename comes before the
\* materialization: the driver is asked for the .asm name, the file is
\* copied from the .asm name in the working directory to the .asm name in
\* the tree, the manifest names that copy, and nothing is copied under the
\* .s or .S name
C4_RenamedBeforeMaterialization ==
    WindowsManifest =>
        \A s \in AsmGenerated :
            LET r == AsAsm(s)
                dst == TreeOf(idx) \o Parts(env.hostWin, r)
            IN  /\ ManifestNames(idx, dst)
                /\ \E f \in files :
                      IsCopy(f, idx, dst) /\ f.from = Parts(env.hostWin, r)
                /\ \E k \in 1..Len(log[idx]) :
                      /\ log[idx][k].op = "make_src"
                      /\ log[idx][k].ok
                      /\ log[idx][k].target = r
                /\ \A f \in files :
                      (f.kind = "copy" /\ f.iter = idx)
                          => f.from # Parts(env.hostWin, s)

\* C4's case: the manifest of a Windows pair is written for a database with
\* generated .s and .S sources
C4_Witness ==
    /\ WindowsManifest
    /\ Cardinality(AsmGenerated) >= 2

\* The tree of the current position is the tree of no other position; a
\* tree is four parts deep, so none lies in another
TreesDisjoint ==
    idx <= Len(Matrix) =>
        \A j \in 1..Len(Matrix) : j # idx => TreeOf(j) # TreeOf(idx)

\* C7 as claimed: every directory made and every file copied or written in
\* the iteration of a pair lies under generated-config/archs/<arch>/<asm>,
\* and no two pairs share a tree
C7_EverythingUnderOwnTree ==
    /\ \A f \in files : Len(f.path) > 4 /\ InTree(f.path, f.iter)
    /\ \A g \in dirs : InTree(g.path, g.iter)
    /\ TreesDisjoint

\* C7 as amended: every file copied or written in the iteration of a pair
\* lies under its tree; every directory made is the tree, lies under it, or
\* is one of its ancestors generated-config, generated-config/archs and
\* generated-config/archs/<arch>, which mkdir(parents=True) makes and pairs
\* share; no two pairs share a tree
C7_FilesUnderOwnTree ==
    /\ \A f \in files : Len(f.path) > 4 /\ InTree(f.path, f.iter)
    /\ \A g \in dirs : InTree(g.path, g.iter) \/ AboveTree(g.path, g.iter)
    /\ TreesDisjoint

\* C7's case: the three pairs of one architecture have each written a
\* manifest
C7_Witness ==
    /\ WrittenManifest(1) /\ WrittenManifest(2) /\ WrittenManifest(3)
    /\ \E g \in dirs : Len(g.path) > 4 /\ InTree(g.path, 3)

\* The libcrypto sources of the database that are marked generated
NumGenerated ==
    Len(SelectSeq(db.unified_info.sources["libcrypto"],
                  LAMBDA o : db.unified_info.sources[o][1] \in db.unified_info.generate))

\* The manifest of the current position, once written, is backed by its
\* files: the four headers are in the tree, copied in this iteration from
\* where the driver builds them, and every generated-source entry of
\* libcrypto_sources is the path, under the tree, of a file that this
\* iteration copied from a file a successful make of this iteration was
\* asked for
ManifestBacked ==
    (idx <= Len(Matrix) /\ WrittenManifest(idx)) =>
        /\ \A h \in 1..Len(HEADERS) :
              LET dst == TreeOf(idx) \o HEADERS[h].dst \o <<HEADERS[h].src[Len(HEADERS[h].src)]>>
              IN  \E f \in files : IsCopy(f, idx, dst) /\ f.from = HEADERS[h].src
        /\ LET e == Entries(ManifestOf(idx).d.libcrypto_srcs)
           IN  /\ Len(e) >= NumGenerated
               /\ \A k \in (Len(e) - NumGenerated + 1)..Len(e) :
                    LET dst == Parts(env.hostWin, e[k])
                    IN  /\ Under(dst, TreeOf(idx))
                        /\ \E f \in files :
                              /\ IsCopy(f, idx, dst)
                              /\ \E n \in 1..Len(log[idx]) :
                                    /\ log[idx][n].op = "make_src"
                                    /\ log[idx][n].ok
                                    /\ Parts(env.hostWin, log[idx][n].target) = f.from

\* C10: in every state, abort included, a written manifest is backed by its
\* files: it is so while its iteration is the current one, and afterwards
\* no step removes or replaces a file that was copied or written, nor
\* changes what an earlier iteration did, so it stays so for every pair
C10_ManifestAfterItsFiles ==
    /\ []ManifestBacked
    /\ [][/\ files \subseteq files'
          /\ \A i \in 1..Len(Matrix) : i < idx => log'[i] = log[i]]_vars

\* C10's case: a manifest with generated sources is written and the run
\* aborted in the cleanup that follows
C10_Witness ==
    /\ pc = "aborted"
    /\ WrittenManifest(idx)
    /\ NumGenerated >= 2

====
